---- MODULE Spec2Model ----
(***************************************************************************)
(* A model of aprsd's in-memory packet bookkeeping:                        *)
(*   PacketList      (aprsd/packets/packet_list.py)  bounded recent cache  *)
(*   PacketTrack     (aprsd/packets/tracker.py)      in-flight messages    *)
(*   PacketCollector (aprsd/packets/collector.py)    observer fan-out      *)
(* Threads call the public methods; a method decorated with                *)
(* wrapt.synchronized(lock) holds the class lock from its first statement  *)
(* to its return.  Statements of a method are separate steps, so that what *)
(* the lock protects shows in the interleavings of the threads.            *)
(***************************************************************************)
EXTENDS Integers, Sequences, FiniteSets, TLC

\* ------------------------------------------------------------- bounds
NThreads == 2        \* worker threads calling into the stores
NKeys == 3           \* distinct packet keys offered to PacketList
MaxCap == 2          \* largest capacity (_maxlen) PacketList is run with
MaxCount == 1        \* cap of PacketList._total_rx and of _total_tx
NIds == 2            \* distinct message numbers (msgNo)
NObjs == 2           \* distinct packet objects per message number
MaxSendCount == 1    \* largest send_count a packet carries into tx
MaxTracked == 3      \* cap of PacketTrack.total_tracked
MaxMonitors == 2     \* cap of the number of registered monitors
MaxFreq == 4         \* largest aprs_registry.frequency_seconds configured
MaxIters == 10       \* cap of the number of registry loop iterations

Threads == 1..NThreads
Keys == 1..NKeys

\* class names of the packets handed to PacketList (packet.__class__.__name__)
PTypes == {"AckPacket", "MessagePacket"}

\* the packets handed to PacketList, one per key; PacketList reads packet.key
\* and the class name: odd keys are MessagePackets, even keys AckPackets
ListPackets ==
    {[key |-> k, ptype |-> IF k % 2 = 1 THEN "MessagePacket" ELSE "AckPacket"] :
        k \in Keys}

NoThread == 0

\* PacketList._maxlen as __new__ sets it
DefaultMaxLen == 100

MsgIds == 1..NIds

\* ackMsgNo of a packet that carries no piggyback ack (None)
NoMsg == 0

Variants == {"AckPacket", "RejectPacket", "MessagePacket"}

\* what PacketTrack reads and writes of a packet: its class, msgNo, ackMsgNo
\* and send_count; oid tells two packet objects with equal fields apart
Pkt(v, m, a, o, c) ==
    [variant |-> v, msgNo |-> m, ackMsgNo |-> a, oid |-> o, send_count |-> c]

\* packets handed to tx: messages about to be sent
TxPackets ==
    {Pkt("MessagePacket", m, NoMsg, o, c) :
        m \in MsgIds, o \in 1..NObjs, c \in 0..MaxSendCount}

\* packets handed to rx: any class, with or without a piggyback ack
RxPackets ==
    {Pkt(v, m, a, 1, 0) : v \in Variants, m \in MsgIds, a \in MsgIds \cup {NoMsg}}

\* return values of a call: None, a value, or a raised exception
RetNone == [kind |-> "none"]
RetVal(v) == [kind |-> "value", val |-> v]
RetRaise(e) == [kind |-> "raise", val |-> e]

VARIABLES
    maxlen,          \* PacketList._maxlen
    packets,         \* PacketList.data["packets"]: OrderedDict, oldest first
    types,           \* PacketList.data["types"]: class name -> {tx, rx}
    total_rx,        \* PacketList._total_rx
    total_tx,        \* PacketList._total_tx
    lock,            \* the class locks: store name -> holding thread or 0
    pc,              \* per thread: the statement it is at ("idle": no call)
    op,              \* per thread: the method it is in
    arg,             \* per thread: the method's argument
    ret,             \* per thread: the exception its call raised, if any
    pre,             \* history: data["packets"] when the thread entered _add
    lru,             \* history: keys ever added, least recently added first
    made,            \* history: class name -> rx / tx calls made on PacketList
    data,            \* PacketTrack.data: msgNo -> packet
    total_tracked,   \* PacketTrack.total_tracked
    tmp,             \* per thread: the value read by "total_tracked += 1"
    flight,          \* history per msgNo: sent; acked / removed since sent
    txDone,          \* history: number of PacketTrack.tx calls that returned
    view,            \* per thread: the dict view keys() / items() / values()
                     \* returned to it, and history: what it showed then
    monitors,        \* PacketCollector.monitors: the registered factories
    trackInstance,   \* PacketTrack._instance is set (the singleton exists)
    frequency_seconds, \* CONF.aprs_registry.frequency_seconds
    thread_stop,     \* the registry thread was stopped (stop() was called)
    loop_cnt,        \* APRSRegistryThread._loop_cnt
    rpc,             \* the registry thread's position in loop()
    iters,           \* history: loop() calls that have returned
    sincePost,       \* history: loop() calls without a POST since the last POST
    postFailed,      \* history: the last POST raised
    col              \* per thread: its Collector.rx / tx call: the method,
                     \* the list iterator's index, the packet, and the
                     \* history of the monitor calls it has made

vars == <<maxlen, packets, types, total_rx, total_tx, lock, pc, op, arg, ret,
          pre, lru, made, data, total_tracked, tmp, flight, txDone, view,
          monitors, trackInstance, col,
          frequency_seconds, thread_stop, loop_cnt, rpc, iters, sincePost,
          postFailed>>

regVars == <<frequency_seconds, thread_stop, loop_cnt, rpc, iters, sincePost,
             postFailed>>

trackVars == <<data, total_tracked, tmp, flight, txDone, view>>
colVars == <<monitors, trackInstance, col>>

listVars == <<maxlen, packets, types, total_rx, total_tx>>
histListVars == <<pre, lru, made>>

\* a thread outside any call holds no argument
NoArg == [key |-> 0, ptype |-> "none"]

\* the call ends with r: its frame (method, argument, locals) is gone.  A
\* returned value is handed to the caller in the same step; an exception
\* travels up the caller's stack ("raised") until the caller has handled it.
\* A method called from the Collector's loop returns into that loop
Return(t, r) ==
    /\ pc' = [pc EXCEPT ![t] = IF r.kind = "raise" THEN "raised"
                               ELSE IF col[t].kind = "none" THEN "idle"
                               ELSE "c_loop"]
    /\ ret' = [ret EXCEPT ![t] = IF r.kind = "raise" THEN r ELSE RetNone]
    /\ op' = [op EXCEPT ![t] = "none"]
    /\ arg' = [arg EXCEPT ![t] = NoArg]
    /\ pre' = [pre EXCEPT ![t] = <<>>]

\* the caller has handled the exception
Resume(t) ==
    /\ pc[t] = "raised"
    /\ pc' = [pc EXCEPT ![t] = "idle"]
    /\ ret' = [ret EXCEPT ![t] = RetNone]

\* ------------------------------------------------------------- locks
Stores == {"PacketList", "PacketTrack"}

\* wrapt.synchronized(lock): the call proceeds only while nobody holds the lock
AcquirableUnguarded(store) == TRUE

Acquirable(store) == lock[store] = NoThread

Acquire(store, t) ==
    /\ Acquirable(store)
    /\ lock' = [lock EXCEPT ![store] = t]

Release(store) == lock' = [lock EXCEPT ![store] = NoThread]

\* the methods of PacketTrack decorated with wrapt.synchronized(lock)
TrackSynchronized ==
    {"getitem", "iter", "keys", "items", "values", "stats", "len",
     "rx", "tx", "get", "remove"}

\* ------------------------------------------------------------- OrderedDict
OdKeys(od) == [i \in 1..Len(od) |-> od[i].key]

OdHas(od, k) == \E i \in 1..Len(od) : od[i].key = k

OdIndex(od, k) == CHOOSE i \in 1..Len(od) : od[i].key = k

\* the sequence without its i-th element
SeqRemoveAt(s, i) == [j \in 1..(Len(s) - 1) |-> IF j < i THEN s[j] ELSE s[j + 1]]

\* OrderedDict.move_to_end(key)
MoveToEnd(od, k) ==
    LET i == OdIndex(od, k) IN Append(SeqRemoveAt(od, i), od[i])

\* OrderedDict.popitem(last=False)
PopItemFirst(od) == Tail(od)

\* od[key] = value: an existing key keeps its place, a new key goes last
OdSet(od, k, v) ==
    IF OdHas(od, k) THEN [od EXCEPT ![OdIndex(od, k)] = v] ELSE Append(od, v)

\* ------------------------------------------------------------- PacketList
ListSynchronizedMaxlen ==
    {"rx", "tx", "add", "find", "total_rx", "total_tx", "stats", "maxlen"}

ListSynchronized == {"rx", "tx", "add", "find", "total_rx", "total_tx", "stats"}

ListUnsynchronized == {"copy", "maxlen", "len"}

ListAccessors == {"find", "total_rx", "total_tx", "stats", "copy", "maxlen", "len"}

\* _add, lines 59-62: refresh a cached key, or make room when full
AddMakeRoomNoEvict(od, p, cap) ==
    IF OdHas(od, p.key) THEN MoveToEnd(od, p.key) ELSE od

AddMakeRoomEvictNewest(od, p, cap) ==
    IF OdHas(od, p.key) THEN MoveToEnd(od, p.key)
    ELSE IF Len(od) = cap THEN SubSeq(od, 1, Len(od) - 1)
    ELSE od

AddMakeRoomNoRefresh(od, p, cap) ==
    IF OdHas(od, p.key) THEN od
    ELSE IF Len(od) = cap THEN PopItemFirst(od)
    ELSE od

AddMakeRoom(od, p, cap) ==
    IF OdHas(od, p.key) THEN MoveToEnd(od, p.key)
    ELSE IF Len(od) = cap THEN PopItemFirst(od)
    ELSE od

\* _add, line 63
AddStore(od, p) == OdSet(od, p.key, p)

\* history: the key becomes the most recently added one
Touch(order, k) ==
    LET rest == SelectSeq(order, LAMBDA x : x # k) IN Append(rest, k)

\* history: one more rx / tx call of a packet of class p.ptype was made; add
\* is no traffic
MadeCall(m, o, p) ==
    IF o = "add" THEN m ELSE [m EXCEPT ![p.ptype][o] = @ + 1]

\* a method calls method name of its own store while it holds the store's
\* lock, a threading.Lock, which is not reentrant: a decorated method would
\* wait for the lock its caller holds
InnerCall(store, name) ==
    LET decorated == IF store = "PacketList" THEN ListSynchronized
                     ELSE TrackSynchronized
    IN name \in decorated => Acquirable(store)

\* rx / tx / add: the call enters the method and takes the lock
ListMutatorCall(t, o, p) ==
    /\ pc[t] = "idle"
    /\ o \in {"rx", "tx", "add"}
    /\ o = "rx" => total_rx < MaxCount
    /\ o = "tx" => total_tx < MaxCount
    /\ Acquire("PacketList", t)
    /\ pc' = [pc EXCEPT ![t] = IF o = "add" THEN "add1" ELSE "inc"]
    /\ op' = [op EXCEPT ![t] = o]
    /\ arg' = [arg EXCEPT ![t] = p]
    /\ made' = MadeCall(made, o, p)
    /\ UNCHANGED <<listVars, ret, pre, lru>>
    /\ UNCHANGED trackVars /\ UNCHANGED colVars
    /\ UNCHANGED regVars

ListRxCall(t) == \E p \in ListPackets : ListMutatorCall(t, "rx", p)
ListTxCall(t) == \E p \in ListPackets : ListMutatorCall(t, "tx", p)
ListAddCall(t) == \E p \in ListPackets : ListMutatorCall(t, "add", p)

\* line 35 / line 46: rx counts in _total_rx, tx in _total_tx
CountedBoth(n, o, which) == n + 1

Counted(n, o, which) == IF o = which THEN n + 1 ELSE n

ListInc(t) ==
    /\ pc[t] = "inc"
    /\ total_rx' = Counted(total_rx, op[t], "rx")
    /\ total_tx' = Counted(total_tx, op[t], "tx")
    /\ pc' = [pc EXCEPT ![t] = "add1"]
    /\ UNCHANGED <<maxlen, packets, types, lock, op, arg, ret, histListVars>>
    /\ UNCHANGED trackVars /\ UNCHANGED colVars
    /\ UNCHANGED regVars

\* lines 36 / 47 / 56 call self._add; lines 59-62, where line 61 reads the
\* property self.maxlen
ListAdd1(t) ==
    /\ pc[t] = "add1"
    /\ InnerCall("PacketList", "_add")
    /\ ~OdHas(packets, arg[t].key) => InnerCall("PacketList", "maxlen")
    /\ pre' = [pre EXCEPT ![t] = packets]
    /\ packets' = AddMakeRoom(packets, arg[t], maxlen)
    /\ pc' = [pc EXCEPT ![t] = "add2"]
    /\ UNCHANGED <<maxlen, types, total_rx, total_tx, lock, op, arg, ret, lru,
                   made>>
    /\ UNCHANGED trackVars /\ UNCHANGED colVars
    /\ UNCHANGED regVars

\* line 63, and for add the return
ListAdd2(t) ==
    /\ pc[t] = "add2"
    /\ packets' = AddStore(packets, arg[t])
    /\ lru' = Touch(lru, arg[t].key)
    /\ IF op[t] = "add"
       THEN /\ Return(t, RetNone)
            /\ Release("PacketList")
       ELSE /\ pc' = [pc EXCEPT ![t] = "types"]
            /\ UNCHANGED <<lock, op, arg, ret, pre>>
    /\ UNCHANGED <<maxlen, types, total_rx, total_tx, made>>
    /\ UNCHANGED trackVars /\ UNCHANGED colVars
    /\ UNCHANGED regVars

\* lines 37-40 / 48-51
TypesCountFresh(ty, ptype, o) ==
    LET cur == [tx |-> 0, rx |-> 0]
        new == IF o = "rx" THEN [cur EXCEPT !.rx = @ + 1]
               ELSE [cur EXCEPT !.tx = @ + 1]
    IN [n \in (DOMAIN ty) \cup {ptype} |-> IF n = ptype THEN new ELSE ty[n]]

TypesCount(ty, ptype, o) ==
    LET cur == IF ptype \in DOMAIN ty THEN ty[ptype] ELSE [tx |-> 0, rx |-> 0]
        new == IF o = "rx" THEN [cur EXCEPT !.rx = @ + 1]
               ELSE [cur EXCEPT !.tx = @ + 1]
    IN [n \in (DOMAIN ty) \cup {ptype} |-> IF n = ptype THEN new ELSE ty[n]]

ListTypes(t) ==
    /\ pc[t] = "types"
    /\ types' = TypesCount(types, arg[t].ptype, op[t])
    /\ pc' = [pc EXCEPT ![t] = "seen"]
    /\ UNCHANGED <<maxlen, packets, total_rx, total_tx, lock, op, arg, ret,
                   histListVars>>
    /\ UNCHANGED trackVars /\ UNCHANGED colVars
    /\ UNCHANGED regVars

\* line 41 / 52: seen_list.SeenList().update_seen(packet) returns or raises;
\* there is no try/except around it, the decorator releases the lock either way
ListSeen(t) ==
    /\ pc[t] = "seen"
    /\ \E ok \in BOOLEAN :
         Return(t, IF ok THEN RetNone ELSE RetRaise("update_seen"))
    /\ Release("PacketList")
    /\ UNCHANGED <<listVars, lru, made>>
    /\ UNCHANGED trackVars /\ UNCHANGED colVars
    /\ UNCHANGED regVars

\* find / total_rx / total_tx / stats take the lock; copy / maxlen / __len__
\* are not decorated and run without it
ListAccessorEnter(t, o, p) ==
    /\ pc[t] = "idle"
    /\ IF o \in ListSynchronized
       THEN Acquire("PacketList", t)
       ELSE UNCHANGED lock
    /\ op' = [op EXCEPT ![t] = o]
    /\ (o = "find") = (p # NoArg)
    /\ arg' = [arg EXCEPT ![t] = p]
    /\ pc' = [pc EXCEPT ![t] = "read"]
    /\ UNCHANGED <<listVars, ret, histListVars>>
    /\ UNCHANGED trackVars /\ UNCHANGED colVars
    /\ UNCHANGED regVars

ListAccessorCall(t) ==
    \E o \in ListAccessors, p \in ListPackets \cup {NoArg} :
        ListAccessorEnter(t, o, p)

\* what an accessor returns from the current state
ListRead(o, p) ==
    CASE o = "find" ->
           IF OdHas(packets, p.key)
           THEN RetVal(packets[OdIndex(packets, p.key)])
           ELSE RetRaise("KeyError")
      [] o = "total_rx" -> RetVal(total_rx)
      [] o = "total_tx" -> RetVal(total_tx)
      [] o = "stats" -> RetVal([total_tracked |-> total_rx + total_rx,
                                rx |-> total_rx, tx |-> total_tx])
      [] o = "copy" -> RetVal(Len(packets))
      [] o = "maxlen" -> RetVal(maxlen)
      [] o = "len" -> RetVal(Len(packets))

ListAccessorReturn(t) ==
    /\ pc[t] = "read"
    /\ Return(t, ListRead(op[t], arg[t]))
    /\ IF op[t] \in ListSynchronized
       THEN Release("PacketList")
       ELSE UNCHANGED lock
    /\ UNCHANGED <<listVars, lru, made>>
    /\ UNCHANGED trackVars /\ UNCHANGED colVars
    /\ UNCHANGED regVars

ListResume(t) ==
    /\ Resume(t)
    /\ UNCHANGED <<listVars, lock, op, arg, histListVars>>
    /\ UNCHANGED trackVars /\ UNCHANGED colVars
    /\ UNCHANGED regVars

\* ------------------------------------------------------------- PacketTrack
TrackAccessors == {"getitem", "iter", "keys", "items", "values", "stats", "len"}

\* dict helpers: data is a function whose domain is the set of tracked msgNo
DictSet(d, k, v) == [x \in (DOMAIN d) \cup {k} |-> IF x = k THEN v ELSE d[x]]

DictDel(d, k) == [x \in (DOMAIN d) \ {k} |-> d[x]]

\* _remove, lines 109-113: del self.data[key], a KeyError is passed over
RemoveKey(d, k) == IF k \in DOMAIN d THEN DictDel(d, k) ELSE d

\* _remove, lines 110-113: what the call ends with; try / except KeyError: pass
RemoveEndsKeyError(d, k) ==
    IF k \in DOMAIN d THEN RetNone ELSE RetRaise("KeyError")

RemoveEnds(d, k) == RetNone

\* Python truth of packet.ackMsgNo (line 89): None is false, a msgNo is true
Truthy(a) == a # NoMsg

\* rx, lines 85-91: the key rx removes, or NoMsg when it removes nothing
RxKeyAckOnly(p) ==
    IF p.variant = "AckPacket" THEN p.msgNo
    ELSE IF Truthy(p.ackMsgNo) THEN p.ackMsgNo
    ELSE NoMsg

RxKeyNoPiggy(p) ==
    IF p.variant \in {"AckPacket", "RejectPacket"} THEN p.msgNo ELSE NoMsg

RxKeyPiggyFirst(p) ==
    IF Truthy(p.ackMsgNo) THEN p.ackMsgNo
    ELSE IF p.variant \in {"AckPacket", "RejectPacket"} THEN p.msgNo
    ELSE NoMsg

RxKey(p) ==
    IF p.variant = "AckPacket" THEN p.msgNo
    ELSE IF p.variant = "RejectPacket" THEN p.msgNo
    ELSE IF Truthy(p.ackMsgNo) THEN p.ackMsgNo
    ELSE NoMsg

\* get, line 103: data.get(key, None)
Get(d, k) == IF k \in DOMAIN d THEN RetVal(d[k]) ELSE RetNone

\* history: the message number an incoming packet acknowledges, by the
\* protocol: an ack or a reject names its own msgNo, any other packet the
\* msgNo it piggybacks an ack for
AckedBy(p) ==
    IF p.variant \in {"AckPacket", "RejectPacket"} THEN p.msgNo ELSE p.ackMsgNo

\* tx: the call enters the method and takes the lock
TxEnter(t, p) ==
    /\ pc[t] \in {"idle", "c_call"}
    /\ pc[t] = "idle" => total_tracked < MaxTracked
    /\ Acquire("PacketTrack", t)
    /\ arg' = [arg EXCEPT ![t] = p]
    /\ op' = [op EXCEPT ![t] = "tx"]
    /\ pc' = [pc EXCEPT ![t] = "t_store"]
    /\ UNCHANGED <<ret, pre, trackVars>>
    /\ UNCHANGED listVars /\ UNCHANGED <<lru, made>> /\ UNCHANGED colVars
    /\ UNCHANGED regVars

TrackTxCall(t) == pc[t] = "idle" /\ \E p \in TxPackets : TxEnter(t, p)

\* lines 96-98: packet.send_count = 0; self.data[key] = packet
TxStoreKeepCount(d, p) == DictSet(d, p.msgNo, p)

TxStoreKeepOld(d, p) ==
    IF p.msgNo \in DOMAIN d THEN d
    ELSE DictSet(d, p.msgNo, [p EXCEPT !.send_count = 0])

TxStore(d, p) == DictSet(d, p.msgNo, [p EXCEPT !.send_count = 0])

TrackTxStore(t) ==
    /\ pc[t] = "t_store"
    /\ data' = TxStore(data, arg[t])
    /\ arg' = [arg EXCEPT ![t] = data'[arg[t].msgNo]]
    /\ flight' = [flight EXCEPT ![arg[t].msgNo] =
                     [sent |-> TRUE, acked |-> FALSE, removed |-> FALSE]]
    /\ pc' = [pc EXCEPT ![t] = "t_read"]
    /\ UNCHANGED <<lock, op, ret, pre, total_tracked, tmp, txDone, view>>
    /\ UNCHANGED listVars /\ UNCHANGED <<lru, made>> /\ UNCHANGED colVars
    /\ UNCHANGED regVars

\* line 99, self.total_tracked += 1: the read
TrackTxRead(t) ==
    /\ pc[t] = "t_read"
    /\ tmp' = [tmp EXCEPT ![t] = total_tracked]
    /\ pc' = [pc EXCEPT ![t] = "t_write"]
    /\ UNCHANGED <<lock, op, arg, ret, pre, data, total_tracked, flight, txDone,
                   view>>
    /\ UNCHANGED listVars /\ UNCHANGED <<lru, made>> /\ UNCHANGED colVars
    /\ UNCHANGED regVars

\* line 99: the write; the method returns
TxCountNoIncrement(t) ==
    /\ total_tracked' = tmp[t]
    /\ tmp' = [tmp EXCEPT ![t] = 0]
    /\ txDone' = txDone + 1
    /\ Release("PacketTrack")
    /\ UNCHANGED <<data, flight, view>>

TxCount(t) ==
    /\ total_tracked' = tmp[t] + 1
    /\ tmp' = [tmp EXCEPT ![t] = 0]
    /\ txDone' = txDone + 1
    /\ Release("PacketTrack")
    /\ UNCHANGED <<data, flight, view>>

TrackTxWrite(t) ==
    /\ pc[t] = "t_write"
    /\ TxCount(t)
    /\ Return(t, RetNone)
    /\ UNCHANGED listVars /\ UNCHANGED <<lru, made>> /\ UNCHANGED colVars
    /\ UNCHANGED regVars

\* rx: the call enters the method and takes the lock
RxEnter(t, p) ==
    /\ pc[t] \in {"idle", "c_call"}
    /\ Acquire("PacketTrack", t)
    /\ arg' = [arg EXCEPT ![t] = p]
    /\ op' = [op EXCEPT ![t] = "rx"]
    /\ pc' = [pc EXCEPT ![t] = "t_rx"]
    /\ UNCHANGED <<ret, pre, trackVars>>
    /\ UNCHANGED listVars /\ UNCHANGED <<lru, made>> /\ UNCHANGED colVars
    /\ UNCHANGED regVars

TrackRxCall(t) == pc[t] = "idle" /\ \E p \in RxPackets : RxEnter(t, p)

\* lines 85-91
TrackRx(t) ==
    /\ pc[t] = "t_rx"
    /\ RxKey(arg[t]) # NoMsg => InnerCall("PacketTrack", "_remove")
    /\ data' = IF RxKey(arg[t]) = NoMsg THEN data ELSE RemoveKey(data, RxKey(arg[t]))
    /\ flight' = IF AckedBy(arg[t]) # NoMsg /\ flight[AckedBy(arg[t])].sent
                 THEN [flight EXCEPT ![AckedBy(arg[t])].acked = TRUE]
                 ELSE flight
    /\ Release("PacketTrack")
    /\ Return(t, IF RxKey(arg[t]) = NoMsg THEN RetNone
                 ELSE RemoveEnds(data, RxKey(arg[t])))
    /\ UNCHANGED <<total_tracked, tmp, txDone, view>>
    /\ UNCHANGED listVars /\ UNCHANGED <<lru, made>> /\ UNCHANGED colVars
    /\ UNCHANGED regVars

\* remove / get: the call enters the method and takes the lock
TrackKeyEnter(t, o, k) ==
    /\ pc[t] = "idle"
    /\ Acquire("PacketTrack", t)
    /\ op' = [op EXCEPT ![t] = o]
    /\ arg' = [arg EXCEPT ![t] = Pkt("key", k, NoMsg, 0, 0)]
    /\ pc' = [pc EXCEPT ![t] = IF o = "remove" THEN "t_remove" ELSE "t_get"]
    /\ UNCHANGED <<ret, pre, trackVars>>
    /\ UNCHANGED listVars /\ UNCHANGED <<lru, made>> /\ UNCHANGED colVars
    /\ UNCHANGED regVars

TrackKeyCall(t) ==
    \E o \in {"remove", "get"}, k \in MsgIds : TrackKeyEnter(t, o, k)

\* line 107
TrackRemove(t) ==
    /\ pc[t] = "t_remove"
    /\ InnerCall("PacketTrack", "_remove")
    /\ data' = RemoveKey(data, arg[t].msgNo)
    /\ flight' = IF flight[arg[t].msgNo].sent
                 THEN [flight EXCEPT ![arg[t].msgNo].removed = TRUE]
                 ELSE flight
    /\ Release("PacketTrack")
    /\ Return(t, RemoveEnds(data, arg[t].msgNo))
    /\ UNCHANGED <<total_tracked, tmp, txDone, view>>
    /\ UNCHANGED listVars /\ UNCHANGED <<lru, made>> /\ UNCHANGED colVars
    /\ UNCHANGED regVars

\* line 103
TrackGet(t) ==
    /\ pc[t] = "t_get"
    /\ Release("PacketTrack")
    /\ Return(t, Get(data, arg[t].msgNo))
    /\ UNCHANGED trackVars /\ UNCHANGED colVars
    /\ UNCHANGED listVars /\ UNCHANGED <<lru, made>> /\ UNCHANGED colVars
    /\ UNCHANGED regVars

\* __getitem__ / __iter__ / keys / items / values / stats / __len__: the call
\* enters the method and takes the lock
TrackAccessorEnter(t, o, k) ==
    /\ pc[t] = "idle"
    /\ Acquire("PacketTrack", t)
    /\ o # "getitem" => k = 1
    /\ op' = [op EXCEPT ![t] = o]
    /\ arg' = [arg EXCEPT ![t] = Pkt("key", k, NoMsg, 0, 0)]
    /\ pc' = [pc EXCEPT ![t] = "t_acc"]
    /\ UNCHANGED <<ret, pre, trackVars>>
    /\ UNCHANGED listVars /\ UNCHANGED <<lru, made>> /\ UNCHANGED colVars
    /\ UNCHANGED regVars

TrackAccessorCall(t) ==
    \E o \in TrackAccessors, k \in MsgIds : TrackAccessorEnter(t, o, k)

\* what an accessor returns from the current state.  keys / items / values
\* return dict views and __iter__ a dict iterator: objects that read self.data
\* when they are used, not copies
TrackRead(o, k) ==
    CASE o = "getitem" ->
           IF k \in DOMAIN data THEN RetVal(data[k]) ELSE RetRaise("KeyError")
      [] o \in {"iter", "keys", "items", "values"} -> RetVal([view |-> o])
      [] o = "len" -> RetVal(Cardinality(DOMAIN data))
      [] o = "stats" ->
           RetVal([total_tracked |-> total_tracked,
                   packets |-> [m \in DOMAIN data |-> data[m].send_count]])

TrackAccessorReturn(t) ==
    /\ pc[t] = "t_acc"
    /\ Release("PacketTrack")
    /\ Return(t, TrackRead(op[t], arg[t].msgNo))
    /\ UNCHANGED trackVars /\ UNCHANGED colVars
    /\ UNCHANGED listVars /\ UNCHANGED <<lru, made>> /\ UNCHANGED colVars
    /\ UNCHANGED regVars

\* ------------------------------------------------------------- dict views
\* keys / items / values, lines 49-59: self.data.keys() / .items() / .values()
\* is a view object bound to the dict self.data
Views == {"keys", "items", "values"}

NoView == [kind |-> "none", snap |-> {}]

\* what a view of dict d shows when it is iterated
ViewOf(kind, d) ==
    CASE kind = "keys" -> DOMAIN d
      [] kind = "items" -> {<<k, d[k]>> : k \in DOMAIN d}
      [] kind = "values" -> {d[k] : k \in DOMAIN d}

\* what the view a thread holds shows now: the view reads self.data
ViewShows(t) == ViewOf(view[t].kind, data)

\* a thread that holds no view calls keys / items / values
TrackViewCall(t) ==
    /\ pc[t] = "idle"
    /\ view[t] = NoView
    /\ Acquire("PacketTrack", t)
    /\ \E o \in Views : op' = [op EXCEPT ![t] = o]
    /\ arg' = [arg EXCEPT ![t] = Pkt("key", 1, NoMsg, 0, 0)]
    /\ pc' = [pc EXCEPT ![t] = "t_acc"]
    /\ UNCHANGED <<ret, pre, trackVars>>
    /\ UNCHANGED listVars /\ UNCHANGED <<lru, made>> /\ UNCHANGED colVars
    /\ UNCHANGED regVars

\* the call returns the view to the thread, which keeps it
TrackViewReturn(t) ==
    /\ pc[t] = "t_acc"
    /\ op[t] \in Views
    /\ view' = [view EXCEPT ![t] = [kind |-> op[t],
                                    snap |-> ViewOf(op[t], data)]]
    /\ Release("PacketTrack")
    /\ Return(t, RetNone)
    /\ UNCHANGED <<data, total_tracked, tmp, flight, txDone>>
    /\ UNCHANGED listVars /\ UNCHANGED <<lru, made>> /\ UNCHANGED colVars
    /\ UNCHANGED regVars

\* the thread is done with its view
ViewDrop(t) ==
    /\ pc[t] = "idle"
    /\ view[t] # NoView
    /\ view' = [view EXCEPT ![t] = NoView]
    /\ UNCHANGED <<lock, pc, op, arg, ret, pre>>
    /\ UNCHANGED <<data, total_tracked, tmp, flight, txDone>>
    /\ UNCHANGED listVars /\ UNCHANGED <<lru, made>> /\ UNCHANGED colVars
    /\ UNCHANGED regVars

\* a thread that holds a view is busy with it and makes no call
ViewTxCall(t) == view[t] = NoView /\ TrackTxCall(t)
ViewRxCall(t) == view[t] = NoView /\ TrackRxCall(t)
ViewKeyCall(t) == view[t] = NoView /\ TrackKeyCall(t)

TrackResume(t) ==
    /\ Resume(t)
    /\ UNCHANGED <<lock, op, arg, pre, trackVars>>
    /\ UNCHANGED listVars /\ UNCHANGED <<lru, made>> /\ UNCHANGED colVars
    /\ UNCHANGED regVars

\* ------------------------------------------------------------- PacketCollector
\* the factories registered: PacketTrack (tracker.py line 119), whose __new__
\* hands out one singleton; Monitor, a class with rx and tx; RxOnly, a class
\* with rx and no tx
Factories == {"PacketTrack", "Monitor", "RxOnly"}

Members(f) == IF f = "RxOnly" THEN {"rx"} ELSE {"rx", "tx"}

\* isinstance(cls, PacketMonitor), a runtime_checkable Protocol: the instance
\* has every member of the protocol
IsPacketMonitorLoose(f) == Members(f) # {}

IsPacketMonitor(f) == {"rx", "tx"} \subseteq Members(f)

\* name(): does the call construct a new instance?  PacketTrack.__new__
\* (tracker.py lines 34-39) constructs one only while _instance is None
ConstructsNew(f) == f # "PacketTrack" \/ ~trackInstance

NoPkt == Pkt("none", NoMsg, NoMsg, 0, 0)

\* the for loop's list iterator moves on to the following index
NextIndexSkip(i) == i + 2

NextIndex(i) == i + 1

NoCol == [kind |-> "none", i |-> 0, pkt |-> NoPkt, log |-> <<>>]

\* the packet handed to the Collector: sent through tx it is tracked under
\* its msgNo, received through rx it acknowledges that msgNo
ColPackets == {Pkt("AckPacket", m, NoMsg, 1, 0) : m \in {1}}

\* register, lines 25-26
ColRegister(t) ==
    /\ pc[t] = "idle"
    /\ Len(monitors) < MaxMonitors
    /\ \E f \in Factories : monitors' = Append(monitors, f)
    /\ UNCHANGED <<listVars, histListVars, trackVars, lock, pc, op, arg, ret,
                   trackInstance, col>>
    /\ UNCHANGED regVars

\* rx / tx are entered: the for loop starts at the first monitor
ColCall(t) ==
    /\ pc[t] = "idle"
    /\ \E k \in {"rx", "tx"}, p \in ColPackets :
         /\ k = "tx" => total_tracked < MaxTracked
         /\ col' = [col EXCEPT ![t] = [kind |-> k, i |-> 1, pkt |-> p,
                                       log |-> <<>>]]
    /\ pc' = [pc EXCEPT ![t] = "c_loop"]
    /\ UNCHANGED <<listVars, histListVars, trackVars, lock, op, arg, ret,
                   monitors, trackInstance>>
    /\ UNCHANGED regVars

\* lines 29-34 / 37-42: the next monitor is instantiated and checked; its
\* method is called, or TypeError is raised and ends the call
ColNext(t) ==
    /\ pc[t] = "c_loop"
    /\ col[t].i <= Len(monitors)
    /\ LET name == monitors[col[t].i] IN
         /\ trackInstance' = (trackInstance \/ name = "PacketTrack")
         /\ IF IsPacketMonitor(name)
            THEN /\ col' = [col EXCEPT
                       ![t].i = NextIndex(@),
                       ![t].log = Append(@, [name |-> name,
                                             method |-> col[t].kind,
                                             pkt |-> col[t].pkt,
                                             new |-> ConstructsNew(name)])]
                 /\ pc' = [pc EXCEPT ![t] = IF name = "PacketTrack"
                                            THEN "c_call" ELSE "c_loop"]
                 /\ UNCHANGED ret
            ELSE /\ col' = [col EXCEPT ![t] = NoCol]
                 /\ pc' = [pc EXCEPT ![t] = "raised"]
                 /\ ret' = [ret EXCEPT ![t] =
                               RetRaise([error |-> "TypeError", name |-> name])]
    /\ UNCHANGED <<listVars, histListVars, trackVars, lock, op, arg, monitors>>
    /\ UNCHANGED regVars

\* the list iterator is exhausted: rx / tx returns
ColReturn(t) ==
    /\ pc[t] = "c_loop"
    /\ col[t].i > Len(monitors)
    /\ col' = [col EXCEPT ![t] = NoCol]
    /\ pc' = [pc EXCEPT ![t] = "idle"]
    /\ UNCHANGED <<listVars, histListVars, trackVars, lock, op, arg, ret,
                   monitors, trackInstance>>
    /\ UNCHANGED regVars

\* line 32 / 40 on a PacketTrack: cls.rx(packet) / cls.tx(packet) is entered
ColTrackEnter(t) ==
    /\ pc[t] = "c_call"
    /\ IF col[t].kind = "rx" THEN RxEnter(t, col[t].pkt)
       ELSE TxEnter(t, col[t].pkt)

ColResume(t) ==
    /\ Resume(t)
    /\ UNCHANGED <<listVars, histListVars, trackVars, lock, op, arg, colVars>>
    /\ UNCHANGED regVars

\* ------------------------------------------------------------- APRSRegistryThread
\* the thread's run loop calls loop() again and again until the thread is
\* stopped; loop(), line 32: is this call one that posts?
PostDue(cnt, freq) == cnt % freq = 0

\* line 48: loop() returns True, "keep looping"
LoopResult == TRUE

\* loop() is called, line 32
RegLoopCall ==
    /\ rpc = "r_idle"
    /\ ~thread_stop
    /\ iters < MaxIters
    /\ IF PostDue(loop_cnt, frequency_seconds)
       THEN rpc' = "r_post" /\ sincePost' = sincePost
       ELSE rpc' = "r_ret" /\ sincePost' = sincePost + 1
    /\ UNCHANGED <<frequency_seconds, thread_stop, loop_cnt, iters, postFailed>>
    /\ UNCHANGED <<listVars, histListVars, trackVars, colVars, lock, pc, op, arg,
                   ret>>

\* lines 40-46: requests.post returns or raises; the exception is logged
RegPost ==
    /\ rpc = "r_post"
    /\ \E failed \in BOOLEAN : postFailed' = failed
    /\ sincePost' = 0
    /\ rpc' = "r_ret"
    /\ UNCHANGED <<frequency_seconds, thread_stop, loop_cnt, iters>>
    /\ UNCHANGED <<listVars, histListVars, trackVars, colVars, lock, pc, op, arg,
                   ret>>

\* line 48: the call returns.  _loop_cnt is as it was: no statement of loop()
\* assigns it
RegReturn ==
    /\ rpc = "r_ret"
    /\ rpc' = IF LoopResult THEN "r_idle" ELSE "r_quit"
    /\ iters' = iters + 1
    /\ postFailed' = FALSE
    /\ loop_cnt' = loop_cnt
    /\ UNCHANGED <<frequency_seconds, thread_stop, sincePost>>
    /\ UNCHANGED <<listVars, histListVars, trackVars, colVars, lock, pc, op, arg,
                   ret>>

\* ------------------------------------------------------------- initial state
\* APRSRegistryThread.__init__, lines 18-28: a thread built with the registry
\* disabled stops itself
InitReg ==
    /\ frequency_seconds \in 1..MaxFreq
    /\ thread_stop \in BOOLEAN
    /\ loop_cnt = 1
    /\ rpc = "r_idle"
    /\ iters = 0
    /\ sincePost = 0
    /\ postFailed = FALSE

\* no registry thread is built
InitNoReg ==
    /\ frequency_seconds = 1
    /\ thread_stop = TRUE
    /\ loop_cnt = 1
    /\ rpc = "r_idle"
    /\ iters = 0
    /\ sincePost = 0
    /\ postFailed = FALSE

\* PacketTrack class attributes, lines 31-32
InitTrack ==
    /\ data = <<>>
    /\ total_tracked = 0
    /\ tmp = [t \in Threads |-> 0]
    /\ flight = [m \in MsgIds |->
                  [sent |-> FALSE, acked |-> FALSE, removed |-> FALSE]]
    /\ txDone = 0
    /\ view = [t \in Threads |-> NoView]

\* PacketCollector.__init__, lines 22-23; no PacketTrack() call was made yet
InitCol ==
    /\ monitors = <<>>
    /\ trackInstance = FALSE
    /\ col = [t \in Threads |-> NoCol]

InitThreads ==
    /\ lock = [s \in Stores |-> NoThread]
    /\ pc = [t \in Threads |-> "idle"]
    /\ op = [t \in Threads |-> "none"]
    /\ arg = [t \in Threads |-> NoArg]
    /\ ret = [t \in Threads |-> RetNone]

\* PacketList.__new__, lines 22-30
InitList ==
    /\ packets = <<>>
    /\ types = <<>>
    /\ total_rx = 0
    /\ total_tx = 0
    /\ pre = [t \in Threads |-> <<>>]
    /\ lru = <<>>
    /\ made = [n \in PTypes |-> [tx |-> 0, rx |-> 0]]

\* the state of the program once the modules are loaded
Init ==
    /\ InitThreads /\ InitList /\ InitTrack /\ InitCol /\ maxlen = DefaultMaxLen
    /\ InitNoReg

\* the same with the registry thread built
InitWithReg ==
    /\ InitThreads /\ InitList /\ InitTrack /\ InitCol /\ maxlen = DefaultMaxLen
    /\ InitReg

\* the same with PacketList run at a small capacity (_maxlen set before use),
\* so that a handful of keys fills the cache
InitSmall ==
    /\ InitThreads /\ InitList /\ InitTrack /\ InitCol /\ maxlen \in 1..MaxCap
    /\ InitNoReg

\* the threads record traffic: rx, tx and add
NextList ==
    \E t \in Threads :
        \/ ListRxCall(t)
        \/ ListTxCall(t)
        \/ ListAddCall(t)
        \/ ListInc(t)
        \/ ListAdd1(t)
        \/ ListAdd2(t)
        \/ ListTypes(t)
        \/ ListSeen(t)
        \/ ListResume(t)

SpecList == InitSmall /\ [][NextList]_vars

\* the same with the accessors called in between
NextListAll ==
    \E t \in Threads :
        \/ ListRxCall(t)
        \/ ListTxCall(t)
        \/ ListAddCall(t)
        \/ ListInc(t)
        \/ ListAdd1(t)
        \/ ListAdd2(t)
        \/ ListTypes(t)
        \/ ListSeen(t)
        \/ ListAccessorCall(t)
        \/ ListAccessorReturn(t)
        \/ ListResume(t)

SpecListAll == InitSmall /\ [][NextListAll]_vars

NextTrack ==
    \E t \in Threads :
        \/ TrackTxCall(t)
        \/ TrackTxStore(t)
        \/ TrackTxRead(t)
        \/ TrackTxWrite(t)
        \/ TrackRxCall(t)
        \/ TrackRx(t)
        \/ TrackKeyCall(t)
        \/ TrackRemove(t)
        \/ TrackGet(t)
        \/ TrackAccessorCall(t)
        \/ TrackAccessorReturn(t)
        \/ TrackResume(t)

SpecTrack == Init /\ [][NextTrack]_vars

\* the threads send, receive and remove while others hold views
NextView ==
    \E t \in Threads :
        \/ ViewTxCall(t)
        \/ TrackTxStore(t)
        \/ TrackTxRead(t)
        \/ TrackTxWrite(t)
        \/ ViewRxCall(t)
        \/ TrackRx(t)
        \/ ViewKeyCall(t)
        \/ TrackRemove(t)
        \/ TrackGet(t)
        \/ TrackViewCall(t)
        \/ TrackViewReturn(t)
        \/ ViewDrop(t)

SpecView == Init /\ [][NextView]_vars

\* ------------------------------------------------------------- heartbeat
NextReg ==
    \/ RegLoopCall
    \/ RegPost
    \/ RegReturn

SpecReg == InitWithReg /\ [][NextReg]_vars

\* ------------------------------------------------------------- fan-out
NextCol ==
    \E t \in Threads :
        \/ ColRegister(t)
        \/ ColCall(t)
        \/ ColNext(t)
        \/ ColReturn(t)
        \/ ColTrackEnter(t)
        \/ TrackRx(t)
        \/ TrackTxStore(t)
        \/ TrackTxRead(t)
        \/ TrackTxWrite(t)
        \/ ColResume(t)

SpecCol == Init /\ [][NextCol]_vars

\* ------------------------------------------------------------- concurrent tx
\* every thread calls PacketTrack.tx once, each with a msgNo of its own
TxOnceCall(t) ==
    \E p \in TxPackets :
        /\ pc[t] = "idle"
        /\ \A u \in Threads \ {t} : pc[u] # "idle" => arg[u].msgNo # p.msgNo
        /\ TxEnter(t, p)

\* line 99: the write; the thread is done and keeps hold of its packet
TxOnceWrite(t) ==
    /\ pc[t] = "t_write"
    /\ TxCount(t)
    /\ pc' = [pc EXCEPT ![t] = "done"]
    /\ UNCHANGED <<op, arg, ret, pre>>
    /\ UNCHANGED listVars /\ UNCHANGED <<lru, made>> /\ UNCHANGED colVars
    /\ UNCHANGED regVars

NextTxOnce ==
    \E t \in Threads :
        \/ TxOnceCall(t)
        \/ TrackTxStore(t)
        \/ TrackTxRead(t)
        \/ TxOnceWrite(t)

SpecTxOnce == Init /\ [][NextTxOnce]_vars

\* ------------------------------------------------------------- re-tracking
\* every thread calls PacketTrack.tx once, with any packet: two threads may
\* send the same msgNo; threads that have not sent yet call remove and get
RetrackCall(t) == pc[t] = "idle" /\ \E p \in TxPackets : TxEnter(t, p)

NextRetrack ==
    \E t \in Threads :
        \/ RetrackCall(t)
        \/ TrackTxStore(t)
        \/ TrackTxRead(t)
        \/ TxOnceWrite(t)
        \/ TrackKeyCall(t)
        \/ TrackRemove(t)
        \/ TrackGet(t)

SpecRetrack == Init /\ [][NextRetrack]_vars

\* ------------------------------------------------------------- all stores
\* the threads call into PacketList and PacketTrack and dispatch through the
\* Collector, where PacketTrack is registered (tracker.py line 119); every
\* call is about the one message 1
LivePacket == [key |-> 1, ptype |-> "MessagePacket"]
LiveTx == Pkt("MessagePacket", 1, NoMsg, 1, 0)
LiveAck == Pkt("AckPacket", 1, NoMsg, 1, 0)

InitLive ==
    /\ InitThreads /\ InitList /\ InitTrack /\ InitNoReg
    /\ maxlen = DefaultMaxLen
    /\ monitors = <<"PacketTrack">>
    /\ trackInstance = FALSE
    /\ col = [t \in Threads |-> NoCol]

LiveListCall(t) ==
    \E o \in {"rx", "tx", "add"} : ListMutatorCall(t, o, LivePacket)

LiveListRead(t) ==
    \/ ListAccessorEnter(t, "find", LivePacket)
    \/ ListAccessorEnter(t, "stats", NoArg)

LiveTrackCall(t) ==
    /\ pc[t] = "idle"
    /\ TxEnter(t, LiveTx) \/ RxEnter(t, LiveAck)

LiveTrackRead(t) ==
    \/ \E o \in {"remove", "get"} : TrackKeyEnter(t, o, 1)
    \/ TrackAccessorEnter(t, "stats", 1)

\* the steps a thread makes inside a call
LiveStep(t) ==
    \/ ListInc(t)
    \/ ListAdd1(t)
    \/ ListAdd2(t)
    \/ ListTypes(t)
    \/ ListSeen(t)
    \/ ListAccessorReturn(t)
    \/ TrackTxStore(t)
    \/ TrackTxRead(t)
    \/ TrackTxWrite(t)
    \/ TrackRx(t)
    \/ TrackRemove(t)
    \/ TrackGet(t)
    \/ TrackAccessorReturn(t)
    \/ ColNext(t)
    \/ ColReturn(t)

NextLive ==
    \E t \in Threads :
        \/ LiveListCall(t)
        \/ LiveListRead(t)
        \/ LiveTrackCall(t)
        \/ LiveTrackRead(t)
        \/ ColCall(t)
        \/ ColTrackEnter(t)
        \/ LiveStep(t)
        \/ ColResume(t)

\* fair scheduling: a thread inside a call keeps running, and a thread that
\* waits for a lock gets it at some time when the lock keeps coming free
FairLive ==
    \A t \in Threads : WF_vars(LiveStep(t)) /\ SF_vars(ColTrackEnter(t))

SpecLive == InitLive /\ [][NextLive]_vars /\ FairLive

\* ------------------------------------------------------------- PacketList claims
\* the last n elements of a sequence (all of it when shorter)
LastN(s, n) == IF Len(s) <= n THEN s ELSE SubSeq(s, Len(s) - n + 1, Len(s))

\* the cached key that was added least recently, by the history of additions
LruKey(order, od) ==
    LET i == CHOOSE j \in 1..Len(order) :
                 /\ OdHas(od, order[j])
                 /\ \A h \in 1..(j - 1) : ~OdHas(od, order[h])
    IN order[i]

\* thread t completes _add (line 63) in this step
AddCompletes(t) == pc[t] = "add2" /\ pc'[t] # "add2"

\* C1: in every reachable state the number of cached packets is at most the
\* capacity maxlen, whatever rx, tx and add calls the threads interleave.
C1_CapacityBound == Len(packets) <= maxlen

\* C1 case: the cache is full after more distinct keys than the capacity came in
C1_Witness ==
    /\ Len(packets) = maxlen
    /\ Len(lru) > maxlen
    /\ total_rx > 0
    /\ total_tx > 0

\* C2: an insert of an absent key into a full cache evicts exactly the least
\* recently added key, keeps every other key in order and puts the new key
\* last; so between inserts the cache holds the last maxlen keys added, in the
\* order they were added.
C2_EvictionOrder ==
    /\ []((\A t \in Threads : pc[t] # "add2") =>
            OdKeys(packets) = LastN(lru, maxlen))
    /\ [][\A t \in Threads :
            (AddCompletes(t) /\ ~OdHas(pre[t], arg[t].key)
               /\ Len(pre[t]) = maxlen) =>
              LET victim == LruKey(lru, pre[t])
                  kept == SelectSeq(OdKeys(pre[t]), LAMBDA k : k # victim)
              IN /\ OdKeys(packets') = Append(kept, arg[t].key)
                 /\ Len(packets') = maxlen
                 /\ Len(kept) = maxlen - 1]_vars

\* C2 case: an rx or tx has just inserted an absent key into a full cache of
\* two or more entries
C2_Witness ==
    \E t \in Threads :
        /\ pc[t] = "types"
        /\ maxlen >= 2
        /\ Len(pre[t]) = maxlen
        /\ ~OdHas(pre[t], arg[t].key)

\* C3: an insert of a cached key keeps the size and the set of cached keys,
\* evicts nothing even when the cache is full, and moves that key to the
\* most recent place while the other keys keep their order.
C3_RecencyRefresh ==
    [][\A t \in Threads :
         (AddCompletes(t) /\ OdHas(pre[t], arg[t].key)) =>
           LET k == arg[t].key
               others == SelectSeq(OdKeys(pre[t]), LAMBDA x : x # k)
           IN /\ Len(packets') = Len(pre[t])
              /\ {packets'[i].key : i \in 1..Len(packets')}
                   = {pre[t][i].key : i \in 1..Len(pre[t])}
              /\ OdKeys(packets') = Append(others, k)]_vars

\* C3 case: an rx or tx has just re-inserted the oldest key of a full cache of
\* two or more entries
C3_Witness ==
    \E t \in Threads :
        /\ pc[t] = "types"
        /\ maxlen >= 2
        /\ Len(pre[t]) = maxlen
        /\ pre[t][1].key = arg[t].key
        /\ packets[Len(packets)].key = arg[t].key

\* history: the rx (tx) calls made so far, over all packet classes
CallsMade(o) == made["AckPacket"][o] + made["MessagePacket"][o]

\* the rx (tx) calls that were entered and have not reached line 35 (46) yet
Pending(o) == Cardinality({t \in Threads : pc[t] = "inc" /\ op[t] = o})

\* C11: _total_rx is the number of rx calls made and _total_tx the number of
\* tx calls made (a call counts from its first statement on), whatever the
\* inserts refreshed or evicted; no step of an add call changes a counter.
C11_ExactTotals ==
    /\ [](/\ total_rx = CallsMade("rx") - Pending("rx")
          /\ total_tx = CallsMade("tx") - Pending("tx"))
    /\ [][(\E t \in Threads : op[t] = "add" \/ op'[t] = "add") =>
            (total_rx' = total_rx /\ total_tx' = total_tx)]_vars

\* C11 case: no call is running, rx and tx were both called, adds brought
\* further keys in and the full cache has evicted
C11_Witness ==
    /\ \A t \in Threads : pc[t] = "idle"
    /\ total_rx = CallsMade("rx") /\ total_rx >= 1
    /\ total_tx = CallsMade("tx") /\ total_tx >= 1
    /\ Len(lru) > total_rx + total_tx
    /\ Len(lru) > Len(packets)

\* C14: whether update_seen returns or fails, the rx / tx call that made it
\* returns normally to its caller, and what the call has counted and cached
\* stays as it is.
C14_SeenFailureSuppressed ==
    [][\A t \in Threads :
         (pc[t] = "seen" /\ pc'[t] # "seen") =>
           /\ pc'[t] = "idle"
           /\ ret'[t] = RetNone
           /\ <<packets, types, total_rx, total_tx>>'
                = <<packets, types, total_rx, total_tx>>]_vars

\* the sum of the rx (tx) counters of the type records in S
RECURSIVE SumTypes(_, _)
SumTypes(S, o) ==
    IF S = {} THEN 0
    ELSE LET n == CHOOSE x \in S : TRUE IN types[n][o] + SumTypes(S \ {n}, o)

\* the rx (tx) calls that have counted in the total and not yet in the type
\* record (lines 36-39 / 47-50)
MidCall(o) ==
    Cardinality({t \in Threads : op[t] = o /\ pc[t] \in {"add1", "add2", "types"}})

\* history: the rx (tx) calls of packets of class n that have passed line 40
\* (line 51)
Recorded(n, o) ==
    made[n][o] - Cardinality({t \in Threads :
                                 /\ op[t] = o
                                 /\ arg[t].ptype = n
                                 /\ pc[t] \in {"inc", "add1", "add2", "types"}})

\* C20: the rx counters of the type records add up to _total_rx and the tx
\* counters to _total_tx (less the one call that is between the two
\* increments); there is a type record exactly for the class names an rx or
\* tx call has counted, holding their numbers; and no counter is negative or
\* ever decreases, no record disappears, and no step of an add changes them.
C20_TypeStats ==
    /\ [](/\ SumTypes(DOMAIN types, "rx") = total_rx - MidCall("rx")
          /\ SumTypes(DOMAIN types, "tx") = total_tx - MidCall("tx")
          /\ DOMAIN types =
                {n \in PTypes : Recorded(n, "rx") + Recorded(n, "tx") > 0}
          /\ \A n \in DOMAIN types :
                /\ types[n].rx = Recorded(n, "rx") /\ types[n].rx >= 0
                /\ types[n].tx = Recorded(n, "tx") /\ types[n].tx >= 0)
    /\ [][/\ \A n \in DOMAIN types :
               /\ n \in DOMAIN types'
               /\ types'[n].rx >= types[n].rx
               /\ types'[n].tx >= types[n].tx
          /\ total_rx' >= total_rx /\ total_tx' >= total_tx
          /\ (\E t \in Threads : op[t] = "add" \/ op'[t] = "add") =>
                types' = types]_vars

\* C20 case: no call is running; one class has been both received and sent,
\* and a packet of a class without a type record is cached, brought in by add
C20_Witness ==
    /\ \A t \in Threads : pc[t] = "idle"
    /\ \E n \in DOMAIN types : types[n].rx >= 1 /\ types[n].tx >= 1
    /\ \E i \in 1..Len(packets) : packets[i].ptype \notin DOMAIN types

\* ------------------------------------------------------------- heartbeat claim
\* C16: for every frequency F >= 1 the running registry thread attempts a POST
\* in every F-th call of loop(): never F calls in a row pass without a POST,
\* and a POST comes only after F - 1 calls without one; a call whose POST
\* failed returns "keep looping" like any other.
C16_Heartbeat ==
    /\ [](sincePost < frequency_seconds)
    /\ [][/\ rpc' = "r_post" => sincePost = frequency_seconds - 1
          /\ rpc = "r_ret" => rpc' = "r_idle"]_vars

\* ------------------------------------------------------------- PacketTrack claims
\* C4 as stated: a msgNo is tracked exactly when it was sent and has not been
\* acknowledged, rejected or piggyback-acknowledged since.
C4_InFlightAsStated ==
    \A m \in MsgIds :
        (m \in DOMAIN data) <=> (flight[m].sent /\ ~flight[m].acked)

\* C4: a msgNo is tracked exactly when it was sent and since then neither
\* acknowledged, rejected, piggyback-acknowledged by a packet that is no ack
\* and no reject, nor removed by remove(key).
C4_InFlight ==
    \A m \in MsgIds :
        (m \in DOMAIN data) <=>
            (flight[m].sent /\ ~flight[m].acked /\ ~flight[m].removed)

\* C4 case: one message is in flight while another was sent and then removed
\* by remove(key) without any acknowledgment
C4_Witness ==
    \E m, n \in MsgIds :
        /\ m # n
        /\ m \in DOMAIN data
        /\ flight[n].sent /\ flight[n].removed /\ ~flight[n].acked
        /\ n \notin DOMAIN data

\* C5: when tx(p) returns, get(p.msgNo) yields p and p.send_count is 0; when
\* rx of an AckPacket with msgNo m returns, get(m) yields None.
C5_TrackThenAck ==
    [][\A t \in Threads :
         /\ (pc[t] = "t_write" /\ pc'[t] # "t_write") =>
               /\ Get(data', arg[t].msgNo) = RetVal(arg[t])
               /\ arg[t].send_count = 0
         /\ (pc[t] = "t_rx" /\ pc'[t] # "t_rx"
               /\ arg[t].variant = "AckPacket") =>
               Get(data', arg[t].msgNo) = RetNone]_vars

\* C5 case: tx has stored its packet and is about to return, while another
\* message was sent and has been acknowledged since
C5_Witness ==
    \E t \in Threads, m \in MsgIds :
        /\ pc[t] = "t_write"
        /\ arg[t].msgNo # m
        /\ data[arg[t].msgNo] = arg[t]
        /\ flight[m].sent /\ flight[m].acked /\ ~flight[m].removed
        /\ m \notin DOMAIN data

\* thread t's rx (remove) call makes its one step, which ends it
RxCompletes(t) == pc[t] = "t_rx" /\ pc'[t] # "t_rx"
RemoveCompletes(t) == pc[t] = "t_remove" /\ pc'[t] # "t_remove"

\* C12: an ack, reject or piggyback ack naming a msgNo that is not tracked, and
\* remove(key) of a key that is not tracked, raise nothing and leave data and
\* total_tracked as they were; after an rx or remove the msgNo it named is not
\* tracked, so that the same packet delivered again is such a no-op.
C12_AbsentRemoval ==
    [][\A t \in Threads :
         /\ (RxCompletes(t) /\ AckedBy(arg[t]) # NoMsg
               /\ AckedBy(arg[t]) \notin DOMAIN data) =>
              (data' = data /\ total_tracked' = total_tracked
                 /\ pc'[t] # "raised")
         /\ (RemoveCompletes(t) /\ arg[t].msgNo \notin DOMAIN data) =>
              (data' = data /\ total_tracked' = total_tracked
                 /\ pc'[t] # "raised")
         /\ (RxCompletes(t) /\ AckedBy(arg[t]) # NoMsg) =>
              AckedBy(arg[t]) \notin DOMAIN data'
         /\ RemoveCompletes(t) => arg[t].msgNo \notin DOMAIN data']_vars

\* C12 case: a reject arrives for a msgNo that was sent and acknowledged
\* before and is no longer tracked, while another message is in flight
C12_Witness ==
    \E t \in Threads :
        /\ pc[t] = "t_rx"
        /\ arg[t].variant = "RejectPacket"
        /\ arg[t].msgNo \notin DOMAIN data
        /\ flight[arg[t].msgNo].acked
        /\ DOMAIN data # {}
        /\ total_tracked >= 2

\* d without the entry of k, and every other entry as it was
Without(d2, d, k) ==
    /\ DOMAIN d2 = (DOMAIN d) \ {k}
    /\ \A x \in DOMAIN d2 : d2[x] = d[x]

\* C13: rx of a packet that is neither an ack nor a reject and carries
\* ackMsgNo = m removes the entry of m when m is tracked and changes nothing
\* otherwise; rx of such a packet without ackMsgNo changes nothing.
C13_PiggybackAck ==
    [][\A t \in Threads :
         (RxCompletes(t) /\ arg[t].variant \notin {"AckPacket", "RejectPacket"}) =>
           /\ total_tracked' = total_tracked
           /\ pc'[t] # "raised"
           /\ IF arg[t].ackMsgNo = NoMsg
              THEN data' = data
              ELSE /\ Without(data', data, arg[t].ackMsgNo)
                   /\ arg[t].ackMsgNo \notin DOMAIN data => data' = data]_vars

\* C13 case: a message packet arrives that piggybacks an ack for a tracked
\* msgNo, while its own msgNo is tracked too
C13_Witness ==
    \E t \in Threads :
        /\ pc[t] = "t_rx"
        /\ arg[t].variant = "MessagePacket"
        /\ arg[t].ackMsgNo \in DOMAIN data
        /\ arg[t].msgNo \in DOMAIN data
        /\ arg[t].msgNo # arg[t].ackMsgNo

\* C15: what keys(), items() or values() returned to a thread shows, for as
\* long as the thread holds it, what was tracked when the call returned,
\* whatever tx, rx and remove calls the other threads make meanwhile.
C15_Snapshot ==
    \A t \in Threads : view[t] # NoView => ViewShows(t) = view[t].snap

\* C17: an rx call removes at most the one entry its packet's class selects:
\* that of msgNo for an AckPacket or RejectPacket, whatever its ackMsgNo, and
\* that of ackMsgNo for any other packet; it inserts nothing and leaves every
\* other entry and total_tracked as they were.
C17_RxFrame ==
    [][\A t \in Threads :
         RxCompletes(t) =>
           LET k == IF arg[t].variant \in {"AckPacket", "RejectPacket"}
                    THEN arg[t].msgNo ELSE arg[t].ackMsgNo
           IN /\ DOMAIN data' \subseteq DOMAIN data
              /\ (DOMAIN data) \ (DOMAIN data') \subseteq {k}
              /\ k \notin DOMAIN data'
              /\ \A x \in DOMAIN data' : data'[x] = data[x]
              /\ total_tracked' = total_tracked]_vars

\* C17 case: an ack for a tracked msgNo arrives that carries the ackMsgNo of
\* another tracked message
C17_Witness ==
    \E t \in Threads :
        /\ pc[t] = "t_rx"
        /\ arg[t].variant = "AckPacket"
        /\ arg[t].msgNo \in DOMAIN data
        /\ arg[t].ackMsgNo \in DOMAIN data
        /\ arg[t].ackMsgNo # arg[t].msgNo

\* C18: tx(p) makes p, with send_count 0, the entry of p.msgNo, in place of
\* whatever packet was tracked under it, and changes no other entry: the
\* number of entries is unchanged when the msgNo was tracked; the call adds
\* one to total_tracked.  Once every thread's tx has returned, total_tracked
\* is the number of threads, and each msgNo sent (and not removed since) has
\* one entry: the packet of one of the threads that sent it.
C18_Retrack ==
    /\ [][\A t \in Threads :
            /\ (pc[t] = "t_store" /\ pc'[t] # "t_store") =>
                 LET m == arg[t].msgNo IN
                 /\ data'[m] = [arg[t] EXCEPT !.send_count = 0]
                 /\ arg'[t] = data'[m]
                 /\ DOMAIN data' = (DOMAIN data) \cup {m}
                 /\ \A x \in (DOMAIN data) \ {m} : data'[x] = data[x]
                 /\ m \in DOMAIN data =>
                      Cardinality(DOMAIN data') = Cardinality(DOMAIN data)
            /\ (pc[t] = "t_write" /\ pc'[t] # "t_write") =>
                 total_tracked' = total_tracked + 1]_vars
    /\ []((\A t \in Threads : pc[t] = "done") =>
            /\ total_tracked = NThreads
            /\ \A t \in Threads :
                 LET m == arg[t].msgNo IN
                 ~flight[m].removed =>
                    /\ m \in DOMAIN data
                    /\ \E u \in Threads : data[m] = arg[u])

\* C18 case: all threads have sent the same msgNo with different packet
\* objects, and the entry is the one packet that was stored last
C18_Witness ==
    /\ \A t \in Threads : pc[t] = "done"
    /\ \A t, u \in Threads : arg[t].msgNo = arg[u].msgNo
    /\ \E t, u \in Threads : arg[t].oid # arg[u].oid
    /\ Cardinality(DOMAIN data) = 1
    /\ total_tracked = NThreads

\* C10: total_tracked never decreases, equals the number of tx calls that
\* have returned, and stats() reports that number.
C10_TotalTracked ==
    /\ [](total_tracked = txDone)
    /\ [][/\ total_tracked' >= total_tracked
          /\ \A t \in Threads :
               (pc[t] = "t_acc" /\ op[t] = "stats" /\ pc'[t] # "t_acc") =>
                   TrackRead("stats", arg[t].msgNo).val.total_tracked
                       = txDone]_vars

\* C10 case: stats() is returning a count of two or more tx calls that is
\* above the number of messages tracked
C10_Witness ==
    \E t \in Threads :
        LET r == TrackRead("stats", arg[t].msgNo).val IN
        /\ pc[t] = "t_acc"
        /\ op[t] = "stats"
        /\ r.total_tracked >= 2
        /\ r.total_tracked > Cardinality(DOMAIN r.packets)

\* C6: once every thread's tx has returned, each thread's msgNo maps to that
\* thread's packet, nothing else is tracked, and total_tracked has grown by
\* the number of threads.
C6_NoLostUpdate ==
    (\A t \in Threads : pc[t] = "done") =>
        /\ DOMAIN data = {arg[t].msgNo : t \in Threads}
        /\ Cardinality(DOMAIN data) = NThreads
        /\ \A t \in Threads : data[arg[t].msgNo] = arg[t]
        /\ total_tracked = NThreads

\* C6 case: all threads have returned from tx
C6_Witness == \A t \in Threads : pc[t] = "done"

\* ------------------------------------------------------------- mutual exclusion
ListPcs == {"inc", "add1", "add2", "types", "seen", "read"}
TrackPcs == {"t_store", "t_read", "t_write", "t_rx", "t_remove", "t_get", "t_acc"}

\* thread t is inside a public operation of the store
Inside(t, store) ==
    CASE store = "PacketList" -> pc[t] \in ListPcs
      [] store = "PacketTrack" -> pc[t] \in TrackPcs
      [] store = "PacketCollector" -> col[t].kind # "none"

\* C7: no two threads are at the same time inside public operations of the
\* same store, for each of PacketCollector, PacketList and PacketTrack.
C7_MutualExclusion ==
    \A store \in {"PacketCollector", "PacketList", "PacketTrack"} :
        \A t, u \in Threads :
            (Inside(t, store) /\ Inside(u, store)) => t = u

\* ------------------------------------------------------------- completion
\* thread t is in a call that has neither returned nor raised
Busy(t) == pc[t] \notin {"idle", "raised"}

\* C19: a thread holds a store's lock exactly while it is inside a decorated
\* method of that store, and none while it is in the Collector's loop or
\* about to call a monitor; under fair scheduling every call a thread is in
\* ends, a dispatch that waits to enter PacketTrack included.
C19_Completes ==
    /\ [](\A t \in Threads :
            /\ pc[t] \in {"c_loop", "c_call"} =>
                 \A store \in Stores : lock[store] # t
            /\ (lock["PacketList"] = t) <=> (pc[t] \in ListPcs)
            /\ (lock["PacketTrack"] = t) <=> (pc[t] \in TrackPcs))
    /\ \A t \in Threads : Busy(t) ~> ~Busy(t)

\* C19 case: a dispatch is about to call PacketTrack while another thread
\* is inside PacketTrack and holds its lock
C19_Witness ==
    \E t, u \in Threads :
        /\ t # u
        /\ pc[t] = "c_call"
        /\ lock["PacketTrack"] = u
        /\ pc[u] \in TrackPcs

\* ------------------------------------------------------------- PacketCollector claims
\* the monitor calls thread t's dispatch has made are the calls of its method
\* with its packet on the first monitors, one each, in registration order
LogInOrder(t) ==
    /\ Len(col[t].log) <= Len(monitors)
    /\ \A j \in 1..Len(col[t].log) :
         /\ col[t].log[j].name = monitors[j]
         /\ col[t].log[j].method = col[t].kind
         /\ col[t].log[j].pkt = col[t].pkt

\* thread t's rx / tx returns normally in this step
DispatchReturns(t) == pc[t] = "c_loop" /\ pc'[t] = "idle"

\* thread t's rx / tx raises in this step
DispatchRaises(t) == pc[t] = "c_loop" /\ pc'[t] = "raised"

HasPair(f) == {"rx", "tx"} \subseteq Members(f)

\* C8 as stated: a dispatch that returns has called its method once on a newly
\* constructed instance of every registration entry, in registration order,
\* and nothing else.
C8_DispatchAsStated ==
    [][\A t \in Threads :
         DispatchReturns(t) =>
           /\ LogInOrder(t)
           /\ Len(col[t].log) = Len(monitors)
           /\ \A j \in 1..Len(col[t].log) : col[t].log[j].new]_vars

\* C8: a dispatch that returns has called its method once on the instance each
\* registration entry's factory returned, in registration order, and nothing
\* else; the instance is newly constructed except for PacketTrack, whose
\* factory returns its one singleton.  While a dispatch runs, its calls so
\* far are those on the first monitors, one each, in order.
C8_Dispatch ==
    /\ [](\A t \in Threads :
            col[t].kind # "none" =>
              /\ LogInOrder(t)
              /\ col[t].i = Len(col[t].log) + 1)
    /\ [][\A t \in Threads :
            DispatchReturns(t) =>
              /\ LogInOrder(t)
              /\ Len(col[t].log) = Len(monitors)
              /\ \A j \in 1..Len(col[t].log) :
                   ~col[t].log[j].new => col[t].log[j].name = "PacketTrack"]_vars

\* C8 case: a tx dispatch over PacketTrack registered twice has made both
\* calls and is about to return
C8_Witness ==
    \E t \in Threads :
        /\ pc[t] = "c_loop"
        /\ col[t].kind = "tx"
        /\ col[t].i > Len(monitors)
        /\ Len(col[t].log) = 2
        /\ monitors = <<"PacketTrack", "PacketTrack">>
        /\ total_tracked >= 2

\* C9: a dispatch never calls a monitor that lacks rx or tx; when it comes to
\* such a monitor it raises TypeError naming that factory, having called the
\* monitors before it once each in order, and the call is over: no later
\* monitor is called.
C9_FailFast ==
    /\ [](\A t \in Threads :
            \A j \in 1..Len(col[t].log) : HasPair(col[t].log[j].name))
    /\ [][\A t \in Threads :
            /\ DispatchRaises(t) =>
                 LET i == col[t].i IN
                 /\ i <= Len(monitors)
                 /\ ~HasPair(monitors[i])
                 /\ ret'[t] = RetRaise([error |-> "TypeError",
                                        name |-> monitors[i]])
                 /\ LogInOrder(t)
                 /\ Len(col[t].log) = i - 1
                 /\ col'[t] = NoCol
            /\ (pc[t] = "c_loop" /\ col'[t] # col[t]
                  /\ col[t].i <= Len(monitors)
                  /\ ~HasPair(monitors[col[t].i])) => pc'[t] = "raised"]_vars

\* C9 case: a dispatch has raised at RxOnly, registered second after
\* PacketTrack, whose tx has run
C9_Witness ==
    \E t \in Threads :
        /\ pc[t] = "raised"
        /\ ret[t].val.name = "RxOnly"
        /\ Len(monitors) = 2
        /\ monitors[1] = "PacketTrack"
        /\ monitors[2] = "RxOnly"
        /\ txDone >= 1

====
